---- MODULE Spec2Model ----
(***************************************************************************)
(* Model of the Bitbucket webhook dispatcher (package bitbucket):          *)
(* Webhook.Handle, Webhook.ServeHTTP and Webhook.badRequest, the           *)
(* eventTypeMap catalog and the JSON decoding of the request body into     *)
(* the catalog's payload types.                                            *)
(*                                                                         *)
(* Every ServeHTTP call is a process that advances statement by statement  *)
(* (its position is frame[r].pc), so that calls interleave with one        *)
(* another and with Handle.  Handle and the assignment of LogOnError are   *)
(* single steps: the model covers the executions in which they are         *)
(* ordered (happen before or after) with respect to each statement of a    *)
(* running dispatch.                                                       *)
(***************************************************************************)
EXTENDS Integers, Sequences, FiniteSets, TLC

\* Number of ServeHTTP calls (requests) in a behaviour.  With more than one
\* they run concurrently, every statement of one interleaved with the others'.
NumReqs == 1

Reqs == 1..NumReqs

\* net/http status codes used by the package and its test.
StatusOK == 200
StatusBadRequest == 400

\* The header the dispatcher reads.
EventKeyHeader == "X-Event-Key"

\* Event-key strings that requests carry and handlers are registered under:
\* the empty string, two keys of the catalog and one key outside it.
EventKeys == {"", "repo:push", "repo:fork", "custom:event"}

\* Handler callbacks the application registers (function values, by identity).
Handlers == {"h1", "h2"}

\* The Handle calls the application makes: every key with h1, and repo:push
\* also with h2 (so that a registration can replace another handler).
Registrations == {<<k, "h1">> : k \in EventKeys} \cup {<<"repo:push", "h2">>}

\* Handler identities are interchangeable, so of the two handlers of a key
\* the application registers h1 first: h2 only ever replaces a handler.
InOrder(m, reg) == reg[2] = "h1" \/ reg[1] \in DOMAIN m

\* What a handler invocation returns: nil or an error (its message).
HandlerResults == {"nil", "handler failed"}

\* The nil function value / nil error / nil interface.
Nil == "nil"

\* The request headers: X-Event-Key absent, or present with a value.
NoHeaders == [n \in {} |-> ""]
RequestHeaders == {NoHeaders} \cup {[n \in {EventKeyHeader} |-> k] : k \in EventKeys}

\* Request bodies.  A body is either not a JSON document (syntax FALSE) or a
\* JSON object, given by the kind of value under each of its top-level names.
NoObject == [n \in {} |-> ""]
Bodies ==
    { [syntax |-> FALSE, obj |-> NoObject],
      [syntax |-> TRUE, obj |-> [n \in {"repository", "fork"} |-> "object"]],
      [syntax |-> TRUE, obj |-> [n \in {"repository", "fork"} |->
                                      IF n = "fork" THEN "number" ELSE "object"]] }

NoBody == [syntax |-> FALSE, obj |-> [n \in {"unread"} |-> "unread"]]

----------------------------------------------------------------------------
\* types.go: the top-level JSON names of each payload struct.  Every one of
\* them is a struct-typed field, which accepts a JSON object only.
StructFields(typ) ==
    CASE typ = "RepoPushEvent" -> {"actor", "repository", "push"}
      [] typ = "RepoForkEvent" -> {"actor", "repository", "fork"}
      [] typ = "RepoCommitCommentCreatedEvent" ->
             {"actor", "comment", "repository", "commit"}
      [] typ \in {"RepoCommitStatusCreatedEvent", "RepoCommitStatusUpdatedEvent"} ->
             {"actor", "repository", "commit_status"}
      [] typ = "IssueCreatedEvent" -> {"actor", "issue", "repository"}
      [] typ = "IssueUpdatedEvent" ->
             {"actor", "issue", "repository", "comment", "changes"}
      [] typ = "IssueCommentCreatedEvent" ->
             {"actor", "issue", "repository", "comment"}
      [] typ \in {"PullRequestCreatedEvent", "PullRequestUpdatedEvent",
                  "PullRequestMergedEvent", "PullRequestDeclinedEvent"} ->
             {"actor", "pullrequest", "repository"}
      [] typ \in {"PullRequestApprovedEvent", "PullRequestApprovalRemovedEvent"} ->
             {"actor", "pullrequest", "repository", "approval"}
      [] typ \in {"PullRequestCommentCreatedEvent", "PullRequestCommentUpdatedEvent",
                  "PullRequestCommentDeletedEvent"} ->
             {"actor", "pullrequest", "repository", "comment"}
      [] OTHER -> {}

\* The catalog as the package initialises it (var eventTypeMap).
EventTypeMapInit ==
    [k \in {"repo:push", "repo:fork", "repo:commit_comment_created",
            "repo:commit_status_created", "repo:commit_status_updated",
            "issue:created", "issue:updated", "issue:comment_created",
            "pullrequest:created", "pullrequest:updated", "pullrequest:approved",
            "pullrequest:unapproved", "pullrequest:fulfilled",
            "pullrequest:rejected", "pullrequest:comment_created",
            "pullrequest:comment_updated", "pull_request:comment_deleted"} |->
        CASE k = "repo:push" -> "RepoPushEvent"
          [] k = "repo:fork" -> "RepoForkEvent"
          [] k = "repo:commit_comment_created" -> "RepoCommitCommentCreatedEvent"
          [] k = "repo:commit_status_created" -> "RepoCommitStatusCreatedEvent"
          [] k = "repo:commit_status_updated" -> "RepoCommitStatusUpdatedEvent"
          [] k = "issue:created" -> "IssueCreatedEvent"
          [] k = "issue:updated" -> "IssueUpdatedEvent"
          [] k = "issue:comment_created" -> "IssueCommentCreatedEvent"
          [] k = "pullrequest:created" -> "PullRequestCreatedEvent"
          [] k = "pullrequest:updated" -> "PullRequestUpdatedEvent"
          [] k = "pullrequest:approved" -> "PullRequestApprovedEvent"
          [] k = "pullrequest:unapproved" -> "PullRequestApprovalRemovedEvent"
          [] k = "pullrequest:fulfilled" -> "PullRequestMergedEvent"
          [] k = "pullrequest:rejected" -> "PullRequestDeclinedEvent"
          [] k = "pullrequest:comment_created" -> "PullRequestCommentCreatedEvent"
          [] k = "pullrequest:comment_updated" -> "PullRequestCommentUpdatedEvent"
          [] k = "pull_request:comment_deleted" -> "PullRequestCommentDeletedEvent"]

----------------------------------------------------------------------------
\* r.Header.Get(name): the value, or "" when the header is absent.
HeaderGet(h, name) == IF name \in DOMAIN h THEN h[name] ELSE ""

\* v, ok := m[key] on a Go map; a nil map has no keys.
MapHasAlways(m, key) == TRUE
MapHas(m, key) == key \in DOMAIN m
MapGet(m, key) == IF key \in DOMAIN m THEN m[key] ELSE Nil

\* m[key] = v on an allocated map.
MapPutIfAbsent(m, key, v) ==
    [x \in (DOMAIN m) \cup {key} |-> IF x \in DOMAIN m THEN m[x] ELSE v]
MapPut(m, key, v) == [x \in (DOMAIN m) \cup {key} |-> IF x = key THEN v ELSE m[x]]

\* fmt.Sprintf(msg, p...): a message is the sequence of its pieces, and each
\* "%s" piece of the format is replaced by the next argument.
RECURSIVE Sprintf(_, _)
Sprintf(msg, p) ==
    IF msg = <<>> THEN <<>>
    ELSE IF Head(msg) = "%s"
         THEN <<(IF p = <<>> THEN "%!s(MISSING)" ELSE Head(p))>>
                  \o Sprintf(Tail(msg), IF p = <<>> THEN p ELSE Tail(p))
         ELSE <<Head(msg)>> \o Sprintf(Tail(msg), p)

\* The formats of the four badRequest calls of ServeHTTP.
MsgMissingKey == <<"Missing X-Event-Key">>
MsgNoHandler == <<"No handler for the event key: ", "%s">>

MsgUnsupportedCopied == <<"No handler for the event key: ", "%s">>
MsgUnsupported == <<"Unsupported event key type: ", "%s">>

MsgHandlerErrorNoVerb == <<"Error handling the event">>
MsgHandlerError == <<"Error handling the event: ", "%s">>

\* if eventKey == ""
EmptyKeyNever(eventKey) == FALSE
EmptyKey(eventKey) == eventKey = ""

\* if err != nil, after Decode
DecodeFailedNever(err) == FALSE
DecodeFailed(err) == err # Nil

\* if err != nil, after the handler call
HandlerFailedInverted(err) == err = Nil
HandlerFailed(err) == err # Nil

\* json.NewDecoder(body).Decode(&v) for v of struct type typ: the error, or
\* Nil.  A body that is no JSON document is a syntax error; a JSON value of
\* the wrong kind under a name of the struct is an UnmarshalTypeError; names
\* the struct does not have are ignored.
DecodeErr(body, typ) ==
    IF ~body.syntax THEN "invalid character"
    ELSE IF \E n \in (DOMAIN body.obj) \cap StructFields(typ) : body.obj[n] # "object"
         THEN "json: cannot unmarshal number into Go struct field"
         ELSE Nil

\* The fields of v that Decode has set from the body.
DecodeFields(body, typ) ==
    IF ~body.syntax THEN {}
    ELSE {n \in (DOMAIN body.obj) \cap StructFields(typ) : body.obj[n] = "object"}

----------------------------------------------------------------------------
VARIABLES
    handlersAllocated,  \* wh.handlers is a map made by NewWebhook (FALSE: the nil map)
    handlers,           \* wh.handlers: event key -> registered handler
    LogOnError,         \* wh.LogOnError: the callback, or Nil
    eventTypeMap,       \* the package-level catalog: event key -> payload type
    frame,              \* frame[r]: position and locals of ServeHTTP call r
    w,                  \* w[r]: the ResponseWriter of call r
    trace,              \* trace[r]: what call r has done so far, in order
    nextAddr,           \* the next address reflect.New hands out
    lastHandle,         \* history: the handler of the last completed Handle call per key
    handlePanics        \* history: a Handle call has panicked (write to the nil map)

vars == <<handlersAllocated, handlers, LogOnError, eventTypeMap, frame, w, trace,
          nextAddr, lastHandle, handlePanics>>

NoEvent == [addr |-> 0, typ |-> Nil, fields |-> {}]

\* "Not sampled yet", for the history fields of a frame.
Unknown == "?"

\* ServeHTTP's locals before its first statement (hdr and body are the
\* request's), and two history fields:
\*   registered  lastHandle of the request's key when wh.handlers was read,
\*               or when the call was rejected before reading it;
\*   logSet      whether wh.LogOnError was set when the failure was reported.
IdleFrame ==
    [pc |-> "idle", hdr |-> NoHeaders, body |-> NoBody, headers |-> NoHeaders,
     eventKey |-> "", handler |-> Nil, t |-> Nil, event |-> NoEvent, err |-> Nil,
     fmsg |-> <<>>, registered |-> Unknown, logSet |-> Unknown]

\* httptest.ResponseRecorder / http.response before anything is written.
NewResponse == [code |-> 0, body |-> <<>>, headerWrites |-> 0]

\* One entry of trace[r].
Ev(ev, who, msg, obj, hdrs) ==
    [ev |-> ev, who |-> who, msg |-> msg, obj |-> obj, hdrs |-> hdrs]

Log(r, e) == trace' = [trace EXCEPT ![r] = Append(@, e)]

\* NewWebhook(): an allocated, empty handlers map and no LogOnError.  The zero
\* value &Webhook{} has the nil map instead.
NewWebhookPreloaded ==
    [handlersAllocated |-> TRUE, handlers |-> [k \in {"repo:push"} |-> "h1"],
     LogOnError |-> Nil]
NewWebhook == [handlersAllocated |-> TRUE, handlers |-> [k \in {} |-> Nil], LogOnError |-> Nil]
ZeroWebhook == [handlersAllocated |-> FALSE, handlers |-> [k \in {} |-> Nil], LogOnError |-> Nil]

Init ==
    /\ \E wh \in {NewWebhook, ZeroWebhook} :
          /\ handlersAllocated = wh.handlersAllocated
          /\ handlers = wh.handlers
          /\ LogOnError = wh.LogOnError
    /\ eventTypeMap = EventTypeMapInit
    /\ frame = [r \in Reqs |-> IdleFrame]
    /\ w = [r \in Reqs |-> NewResponse]
    /\ trace = [r \in Reqs |-> <<>>]
    /\ nextAddr = 1
    /\ lastHandle = [k \in EventKeys |-> Nil]
    /\ handlePanics = FALSE

----------------------------------------------------------------------------
\* func (wh *Webhook) Handle(eventKey, handler): wh.handlers[eventKey] = handler.
\* An assignment to an entry of the nil map panics.
HandleAllocating(eventKey, handler) ==
    /\ handlersAllocated' = TRUE
    /\ handlers' = MapPut(handlers, eventKey, handler)
    /\ lastHandle' = [lastHandle EXCEPT ![eventKey] = handler]
    /\ UNCHANGED <<LogOnError, eventTypeMap, frame, w, trace, nextAddr, handlePanics>>
Handle(eventKey, handler) ==
    /\ IF handlersAllocated
       THEN /\ handlers' = MapPut(handlers, eventKey, handler)
            /\ lastHandle' = [lastHandle EXCEPT ![eventKey] = handler]
            /\ UNCHANGED handlePanics
       ELSE /\ handlePanics' = TRUE
            /\ UNCHANGED <<handlers, lastHandle>>
    /\ UNCHANGED <<handlersAllocated, LogOnError, eventTypeMap, frame, w, trace, nextAddr>>

\* The application sets or clears the exported field wh.LogOnError.
SetLogOnError(f) ==
    /\ LogOnError # f
    /\ LogOnError' = f
    /\ UNCHANGED <<handlersAllocated, handlers, eventTypeMap, frame, w, trace,
                   nextAddr, lastHandle, handlePanics>>

----------------------------------------------------------------------------
\* http.Error(w, msg, code): WriteHeader(code), then the message and a newline.
\* A WriteHeader after the first does not change the status.
HttpErrorBodyOnly(wr, msg, code) == [wr EXCEPT !.body = @ \o msg \o <<"\n">>]
HttpError(wr, msg, code) ==
    [code |-> IF wr.headerWrites = 0 THEN code ELSE wr.code,
     body |-> wr.body \o msg \o <<"\n">>,
     headerWrites |-> wr.headerWrites + 1]

\* The server finishing a call that returned: a handler that wrote nothing
\* answers 200 with an empty body.
FinishRequest(wr) ==
    IF wr.headerWrites = 0
    THEN [wr EXCEPT !.code = StatusOK, !.headerWrites = 1]
    ELSE wr

\* The call wh.badRequest(w, r, msg, p...) up to fmsg := fmt.Sprintf(msg, p...).
BadRequestFrame(f, msg, p) == [f EXCEPT !.pc = "badRequest", !.fmsg = Sprintf(msg, p)]

\* ServeHTTP, first statements: build headers, read the event key, and reject
\* a request whose key is empty.
ServeBegin(r) ==
    /\ frame[r].pc = "idle"
    /\ \E hdr \in RequestHeaders :
         LET headers == [n \in {EventKeyHeader} |-> HeaderGet(hdr, n)]
             eventKey == headers[EventKeyHeader]
             f == [frame[r] EXCEPT !.hdr = hdr, !.headers = headers,
                                   !.eventKey = eventKey]
         IN  /\ frame' = [frame EXCEPT ![r] =
                    IF EmptyKey(eventKey)
                    THEN BadRequestFrame([f EXCEPT !.registered = lastHandle[eventKey]],
                                         MsgMissingKey, <<>>)
                    ELSE [f EXCEPT !.pc = "lookupHandler"]]
             /\ Log(r, Ev("begin", Nil, <<>>, NoEvent, headers))
    /\ UNCHANGED <<handlersAllocated, handlers, LogOnError, eventTypeMap, w,
                   nextAddr, lastHandle, handlePanics>>

\* handler, ok := wh.handlers[eventKey]; if !ok { badRequest ... }
LookupHandler(r) ==
    /\ frame[r].pc = "lookupHandler"
    /\ LET f == frame[r]
           ok == MapHas(handlers, f.eventKey)
           handler == MapGet(handlers, f.eventKey)
           g == [f EXCEPT !.handler = handler, !.registered = lastHandle[f.eventKey]]
       IN  /\ frame' = [frame EXCEPT ![r] =
                  IF ~ok
                  THEN BadRequestFrame(g, MsgNoHandler, <<f.eventKey>>)
                  ELSE [g EXCEPT !.pc = "lookupType"]]
           /\ Log(r, Ev("lookupHandler", handler, <<>>, NoEvent, NoHeaders))
    /\ UNCHANGED <<handlersAllocated, handlers, LogOnError, eventTypeMap, w,
                   nextAddr, lastHandle, handlePanics>>

\* t, ok := eventTypeMap[eventKey]; if !ok { badRequest ... }
LookupType(r) ==
    /\ frame[r].pc = "lookupType"
    /\ LET f == frame[r]
           ok == MapHas(eventTypeMap, f.eventKey)
           t == MapGet(eventTypeMap, f.eventKey)
           g == [f EXCEPT !.t = t]
       IN  /\ frame' = [frame EXCEPT ![r] =
                  IF ~ok
                  THEN BadRequestFrame(g, MsgUnsupported, <<f.eventKey>>)
                  ELSE [g EXCEPT !.pc = "new"]]
           /\ Log(r, Ev("lookupType", t, <<>>, NoEvent, NoHeaders))
    /\ UNCHANGED <<handlersAllocated, handlers, LogOnError, eventTypeMap, w,
                   nextAddr, lastHandle, handlePanics>>

\* event := reflect.New(reflect.TypeOf(t)).Elem().Addr().Interface():
\* a pointer to a new zero value of t's type.
ReflectNewShared(t, addr) == [addr |-> 1, typ |-> t, fields |-> {}]
ReflectNewPush(t, addr) == [addr |-> addr, typ |-> "RepoPushEvent", fields |-> {}]
ReflectNew(t, addr) == [addr |-> addr, typ |-> t, fields |-> {}]

NewEvent(r) ==
    /\ frame[r].pc = "new"
    /\ LET event == ReflectNew(frame[r].t, nextAddr)
       IN  /\ frame' = [frame EXCEPT ![r] = [@ EXCEPT !.event = event, !.pc = "decode"]]
           /\ Log(r, Ev("new", Nil, <<>>, event, NoHeaders))
    /\ nextAddr' = nextAddr + 1
    /\ UNCHANGED <<handlersAllocated, handlers, LogOnError, eventTypeMap, w,
                   lastHandle, handlePanics>>

\* err := json.NewDecoder(r.Body).Decode(event); on an error: log.Printf,
\* http.Error(w, "Read error: "+err.Error(), 400), return (and the server
\* completes the response).
DecodeBody(r) ==
    /\ frame[r].pc = "decode"
    /\ \E body \in Bodies :
         LET f == frame[r]
             err == DecodeErr(body, f.event.typ)
             event == [f.event EXCEPT !.fields = DecodeFields(body, f.event.typ)]
             g == [f EXCEPT !.body = body, !.err = err, !.event = event]
         IN  IF DecodeFailed(err)
             THEN /\ frame' = [frame EXCEPT ![r] =
                        [g EXCEPT !.pc = "done",
                                  !.logSet = IF LogOnError # Nil THEN "set" ELSE "unset"]]
                  /\ w' = [w EXCEPT ![r] = FinishRequest(
                              HttpError(@, <<"Read error: ", err>>, StatusBadRequest))]
                  /\ trace' = [trace EXCEPT ![r] = @ \o
                        << Ev("decode", err, <<>>, event, NoHeaders),
                           Ev("log.Printf", Nil, <<"Error parsing the body: ", err>>,
                              NoEvent, NoHeaders),
                           Ev("http.Error", Nil, <<"Read error: ", err>>,
                              NoEvent, NoHeaders),
                           Ev("return", Nil, <<>>, NoEvent, NoHeaders) >>]
             ELSE /\ frame' = [frame EXCEPT ![r] = [g EXCEPT !.pc = "call"]]
                  /\ Log(r, Ev("decode", err, <<>>, event, NoHeaders))
                  /\ UNCHANGED w
    /\ UNCHANGED <<handlersAllocated, handlers, LogOnError, eventTypeMap,
                   nextAddr, lastHandle, handlePanics>>

\* err = handler(headers, event): the call ...
CallHandler(r) ==
    /\ frame[r].pc = "call"
    /\ frame' = [frame EXCEPT ![r] = [@ EXCEPT !.pc = "inHandler"]]
    /\ Log(r, Ev("call", frame[r].handler, <<>>, frame[r].event, frame[r].headers))
    /\ UNCHANGED <<handlersAllocated, handlers, LogOnError, eventTypeMap, w,
                   nextAddr, lastHandle, handlePanics>>

\* ... and its return: if err != nil { badRequest ... }; with a nil error
\* ServeHTTP returns having written nothing.
HandlerReturn(r) ==
    /\ frame[r].pc = "inHandler"
    /\ \E err \in HandlerResults :
         LET g == [frame[r] EXCEPT !.err = err]
             returned == Ev("returned", frame[r].handler, <<err>>, NoEvent, NoHeaders)
         IN  IF HandlerFailed(err)
             THEN /\ frame' = [frame EXCEPT ![r] =
                                  BadRequestFrame(g, MsgHandlerError, <<err>>)]
                  /\ Log(r, returned)
                  /\ UNCHANGED w
             ELSE /\ frame' = [frame EXCEPT ![r] = [g EXCEPT !.pc = "done"]]
                  /\ trace' = [trace EXCEPT ![r] = @ \o
                        << returned, Ev("return", Nil, <<>>, NoEvent, NoHeaders) >>]
                  /\ w' = [w EXCEPT ![r] = FinishRequest(@)]
    /\ UNCHANGED <<handlersAllocated, handlers, LogOnError, eventTypeMap,
                   nextAddr, lastHandle, handlePanics>>

\* badRequest: if wh.LogOnError != nil { wh.LogOnError(fmsg) }
BadRequestLog(r) ==
    /\ frame[r].pc = "badRequest"
    /\ frame' = [frame EXCEPT ![r] =
          [@ EXCEPT !.pc = "badRequestWrite",
                    !.logSet = IF LogOnError # Nil THEN "set" ELSE "unset"]]
    /\ IF LogOnError # Nil
       THEN Log(r, Ev("LogOnError", LogOnError, frame[r].fmsg, NoEvent, NoHeaders))
       ELSE UNCHANGED trace
    /\ UNCHANGED <<handlersAllocated, handlers, LogOnError, eventTypeMap, w,
                   nextAddr, lastHandle, handlePanics>>

\* badRequest: http.Error(w, fmsg, http.StatusBadRequest); back in ServeHTTP
\* the return that follows every badRequest call, and the server completes
\* the response.
BadRequestWrite(r) ==
    /\ frame[r].pc = "badRequestWrite"
    /\ frame' = [frame EXCEPT ![r] = [@ EXCEPT !.pc = "done"]]
    /\ w' = [w EXCEPT ![r] = FinishRequest(HttpError(@, frame[r].fmsg, StatusBadRequest))]
    /\ trace' = [trace EXCEPT ![r] = @ \o
          << Ev("http.Error", Nil, frame[r].fmsg, NoEvent, NoHeaders),
             Ev("return", Nil, <<>>, NoEvent, NoHeaders) >>]
    /\ UNCHANGED <<handlersAllocated, handlers, LogOnError, eventTypeMap,
                   nextAddr, lastHandle, handlePanics>>

ServeHTTP(r) ==
    \/ ServeBegin(r)
    \/ LookupHandler(r)
    \/ LookupType(r)
    \/ NewEvent(r)
    \/ DecodeBody(r)
    \/ CallHandler(r)
    \/ HandlerReturn(r)
    \/ BadRequestLog(r)
    \/ BadRequestWrite(r)

Next ==
    \/ \E reg \in Registrations : InOrder(handlers, reg) /\ Handle(reg[1], reg[2])
    \/ \E f \in {Nil, "logger"} : SetLogOnError(f)
    \/ \E r \in Reqs : ServeHTTP(r)

Spec == Init /\ [][Next]_vars

----------------------------------------------------------------------------
\* Serving: the application has built the Webhook and made its Handle calls
\* (or none, on the zero value), and the HTTP server runs ServeHTTP calls
\* concurrently, one goroutine per request, with no Handle call any more.

\* Number of concurrent ServeHTTP calls while serving.
NumDispatches == 2

Dispatches == 1..NumDispatches

\* The registries Handle calls can have left.  Handler identities are
\* interchangeable, so every registered key has h1.
ServingRegistries == {[k \in S |-> "h1"] : S \in SUBSET EventKeys}

\* Either the application used NewWebhook, set LogOnError and registered its
\* handlers, or it serves the zero value (nil map, nil LogOnError) as it is.
InitServing ==
    /\ \/ /\ handlersAllocated = NewWebhook.handlersAllocated
          /\ handlers \in ServingRegistries
          /\ LogOnError = "logger"
       \/ /\ handlersAllocated = ZeroWebhook.handlersAllocated
          /\ handlers = ZeroWebhook.handlers
          /\ LogOnError = ZeroWebhook.LogOnError
    /\ eventTypeMap = EventTypeMapInit
    /\ frame = [r \in Dispatches |-> IdleFrame]
    /\ w = [r \in Dispatches |-> NewResponse]
    /\ trace = [r \in Dispatches |-> <<>>]
    /\ nextAddr = 1
    /\ lastHandle = [k \in EventKeys |-> MapGet(handlers, k)]
    /\ handlePanics = FALSE

NextServing == \E r \in Dispatches : ServeHTTP(r)

SpecServing == InitServing /\ [][NextServing]_vars

----------------------------------------------------------------------------
\* Vocabulary of the properties below.

\* Call r has returned and its response is complete.
Done(r) == frame[r].pc = "done"

\* The value of the request's X-Event-Key header ("" when it has none).
ReqKey(r) ==
    IF EventKeyHeader \in DOMAIN frame[r].hdr THEN frame[r].hdr[EventKeyHeader] ELSE ""

\* The positions in trace[r] of the entries of kind ev.
Events(r, ev) == {i \in DOMAIN trace[r] : trace[r][i].ev = ev}

\* The text s has the piece x.
Contains(s, x) == \E i \in DOMAIN s : s[i] = x

\* The key of call r had a handler (the last one registered for it) when
\* the registry was consulted.
Registered(r) == frame[r].registered \in Handlers

Cataloged(k) == k \in DOMAIN EventTypeMapInit

\* Call r has read the request body.
BodyRead(r) == frame[r].body \in Bodies

\* The handler invoked by call r has returned an error.
HandlerReturnedError(r) ==
    \E i \in Events(r, "returned") : trace[r][i].msg # <<Nil>>

\* Call r has not touched a payload: none allocated, no body read or parsed.
NoPayload(r) ==
    /\ Events(r, "new") = {}
    /\ Events(r, "decode") = {}
    /\ frame[r].body = NoBody
    /\ frame[r].event = NoEvent

----------------------------------------------------------------------------
\* C1: a request whose key k has a registered handler and a catalog entry
\* gets its body read; if the body is well-formed JSON for k's shape and the
\* handler returns no error, the handler registered for k has been invoked
\* exactly once, no other handler has been invoked, and the response is
\* 200 with an empty body.
C1_SuccessfulDispatch ==
    \A r \in Reqs :
        (Done(r) /\ Registered(r) /\ Cataloged(ReqKey(r))) =>
            /\ BodyRead(r)
            /\ (DecodeErr(frame[r].body, EventTypeMapInit[ReqKey(r)]) = Nil
                  /\ ~HandlerReturnedError(r)) =>
                   /\ Cardinality(Events(r, "call")) = 1
                   /\ \A i \in Events(r, "call") : trace[r][i].who = frame[r].registered
                   /\ Cardinality(Events(r, "returned")) = 1
                   /\ w[r] = [code |-> StatusOK, body |-> <<>>, headerWrites |-> 1]

C1_Witness ==
    \E r \in Reqs :
        /\ Done(r) /\ ReqKey(r) = "repo:fork" /\ frame[r].registered = "h1"
        /\ frame[r].body.syntax /\ frame[r].err = Nil
        /\ \E i \in Events(r, "call") : trace[r][i].who = "h1"
        /\ w[r].code = StatusOK

\* C2: a request whose X-Event-Key header is absent or empty never reaches a
\* handler or the body, whatever is registered (also under ""), and is
\* answered 400 with "Missing X-Event-Key".
C2_MissingEventKey ==
    \A r \in Reqs :
        (frame[r].pc # "idle" /\ ReqKey(r) = "") =>
            /\ Events(r, "call") = {}
            /\ Events(r, "lookupHandler") = {}
            /\ Events(r, "lookupType") = {}
            /\ NoPayload(r)
            /\ Done(r) =>
                 /\ w[r].code = StatusBadRequest
                 /\ w[r].headerWrites = 1
                 /\ Contains(w[r].body, "Missing X-Event-Key")

C2_Witness ==
    \E r \in Reqs :
        /\ Done(r)
        /\ frame[r].hdr = [n \in {EventKeyHeader} |-> ""]
        /\ MapHas(handlers, "") /\ frame[r].registered = "h1"
        /\ w[r].code = StatusBadRequest

\* C3: a request with a non-empty key that has no handler is answered 400
\* "No handler for the event key", in or out of the catalog, with no payload
\* allocated and no body parsed; the handler lookup comes before the catalog
\* lookup, so the answer is never "Unsupported event key type".
C3_UnknownHandler ==
    \A r \in Reqs :
        /\ \A i \in Events(r, "lookupType") :
              \E j \in Events(r, "lookupHandler") : j < i
        /\ (ReqKey(r) # "" /\ frame[r].registered = Nil) =>
              /\ Events(r, "lookupType") = {}
              /\ Events(r, "call") = {}
              /\ NoPayload(r)
              /\ Done(r) =>
                   /\ w[r].code = StatusBadRequest
                   /\ w[r].headerWrites = 1
                   /\ w[r].body = <<"No handler for the event key: ", ReqKey(r), "\n">>
                   /\ ~Contains(w[r].body, "Unsupported event key type: ")

C3_Witness ==
    \E r \in Reqs :
        /\ Done(r) /\ ReqKey(r) = "custom:event" /\ frame[r].registered = Nil
        /\ ~Cataloged(ReqKey(r))
        /\ w[r].code = StatusBadRequest

\* The response of call r is the UnsupportedEventKey rejection, reached
\* without invoking a handler or touching the body.
UnsupportedOutcome(r) ==
    /\ w[r].code = StatusBadRequest
    /\ w[r].headerWrites = 1
    /\ w[r].body = <<"Unsupported event key type: ", ReqKey(r), "\n">>
    /\ Events(r, "call") = {}
    /\ NoPayload(r)

\* C4 as stated: every completed dispatch of a request whose event key has a
\* registered handler and no catalog entry is rejected as UnsupportedEventKey.
C4_AsStated ==
    \A r \in Reqs :
        (Done(r) /\ EventKeyHeader \in DOMAIN frame[r].hdr
                 /\ Registered(r) /\ ~Cataloged(ReqKey(r))) =>
            UnsupportedOutcome(r)

\* C4, amended: Handle on a constructed Webhook stores a handler under any
\* string, the empty one included; every completed dispatch of a request
\* whose NON-EMPTY event key has a registered handler and no catalog entry
\* is rejected 400 "Unsupported event key type", the handler is not
\* invoked and the body is not parsed; under the empty key the rejection is
\* "Missing X-Event-Key" instead.
C4_UnsupportedEventKey ==
    /\ \A k \in EventKeys : lastHandle[k] # Nil => MapHas(handlers, k)
    /\ \A r \in Reqs :
          /\ (Registered(r) /\ ~Cataloged(ReqKey(r))) =>
                (Events(r, "call") = {} /\ NoPayload(r))
          /\ (Done(r) /\ Registered(r) /\ ~Cataloged(ReqKey(r))) =>
                IF ReqKey(r) # ""
                THEN UnsupportedOutcome(r)
                ELSE Contains(w[r].body, "Missing X-Event-Key")

C4_Witness ==
    \E r \in Reqs :
        /\ Done(r) /\ ReqKey(r) = "custom:event" /\ frame[r].registered = "h1"
        /\ Events(r, "lookupType") # {}
        /\ UnsupportedOutcome(r)

\* C5: a completed dispatch of a registered, cataloged key whose body fails
\* to decode is answered 400 with the decoder's message, and the handler has
\* not been invoked.
C5_BodyParseError ==
    \A r \in Reqs :
        (Done(r) /\ Registered(r) /\ Cataloged(ReqKey(r)) /\ BodyRead(r)
           /\ DecodeErr(frame[r].body, EventTypeMapInit[ReqKey(r)]) # Nil) =>
            /\ w[r].code = StatusBadRequest
            /\ w[r].headerWrites = 1
            /\ Contains(w[r].body, DecodeErr(frame[r].body, EventTypeMapInit[ReqKey(r)]))
            /\ Events(r, "call") = {}
            /\ Events(r, "returned") = {}

C5_Witness ==
    \E r \in Reqs :
        /\ Done(r) /\ ReqKey(r) = "repo:fork" /\ Registered(r)
        /\ frame[r].body.syntax
        /\ frame[r].err = "json: cannot unmarshal number into Go struct field"
        /\ w[r].code = StatusBadRequest

\* C6: when the handler returns an error it has been invoked exactly once
\* and has returned (once); the completed response is 400, neither success
\* nor a server error, and its body carries the handler's error message.
C6_HandlerError ==
    \A r \in Reqs :
        HandlerReturnedError(r) =>
            /\ Cardinality(Events(r, "call")) = 1
            /\ Cardinality(Events(r, "returned")) = 1
            /\ \A i \in Events(r, "call"), j \in Events(r, "returned") :
                  i < j /\ trace[r][i].who = frame[r].registered
            /\ Done(r) =>
                 /\ w[r].code = StatusBadRequest
                 /\ w[r].headerWrites = 1
                 /\ \A j \in Events(r, "returned") :
                       Contains(w[r].body, trace[r][j].msg[1])
                 /\ Contains(w[r].body, "Error handling the event: ")

C6_Witness ==
    \E r \in Reqs :
        /\ Done(r) /\ HandlerReturnedError(r)
        /\ frame[r].err = "handler failed"
        /\ w[r].code = StatusBadRequest

\* C7: the registry holds, for each key, exactly the handler of the last
\* Handle call that stored one for it (keys never registered are absent, so
\* a Handle call for one key leaves the others as they were), and a dispatch
\* invokes only the handler that was the latest for its key when it
\* consulted the registry, never one that had been replaced by then.
C7_LastRegistrationWins ==
    /\ DOMAIN handlers \subseteq EventKeys
    /\ \A k \in EventKeys :
          /\ MapHas(handlers, k) <=> lastHandle[k] # Nil
          /\ MapGet(handlers, k) = lastHandle[k]
    /\ \A r \in Reqs :
          /\ \A i \in Events(r, "lookupHandler") :
                trace[r][i].who = frame[r].registered
          /\ \A i \in Events(r, "call") :
                /\ Registered(r)
                /\ trace[r][i].who = frame[r].registered

\* h2 is only ever registered over another handler of repo:push, so a
\* dispatch that has invoked h2 found it after a replacement.
C7_Witness ==
    \E r \in Reqs :
        /\ Done(r) /\ ReqKey(r) = "repo:push"
        /\ \E i \in Events(r, "call") : trace[r][i].who = "h2"
        /\ MapGet(handlers, "repo:push") = "h2"
        /\ MapGet(handlers, "repo:fork") = "h1"
        /\ ~MapHas(handlers, "custom:event")

\* The five failure classes of a completed dispatch.
FailureClass(r) ==
    IF ReqKey(r) = "" THEN "MissingEventKey"
    ELSE IF ~Registered(r) THEN "UnknownHandler"
    ELSE IF ~Cataloged(ReqKey(r)) THEN "UnsupportedEventKey"
    ELSE IF BodyRead(r) /\ DecodeErr(frame[r].body, EventTypeMapInit[ReqKey(r)]) # Nil
         THEN "BodyParseError"
    ELSE IF HandlerReturnedError(r) THEN "HandlerError"
    ELSE "none"

\* The message of the response, without the newline http.Error appends.
ResponseMessage(r) == SubSeq(w[r].body, 1, Len(w[r].body) - 1)

\* C8 as stated: with LogOnError set when the failure is reported, a failed
\* dispatch of any of the five classes has invoked the callback exactly once,
\* with the failure message, before the error response was written; a
\* successful dispatch has not invoked it.
C8_DiagnosticCallback ==
    \A r \in Reqs :
        Done(r) =>
            IF FailureClass(r) = "none"
            THEN Events(r, "LogOnError") = {}
            ELSE frame[r].logSet = "set" =>
                   /\ Cardinality(Events(r, "LogOnError")) = 1
                   /\ \A i \in Events(r, "LogOnError") :
                        /\ trace[r][i].msg = ResponseMessage(r)
                        /\ \A j \in Events(r, "http.Error") : i < j

\* What holds of the callback: the same, for the four classes that are
\* reported through badRequest (every class but BodyParseError).
C8_ExceptBodyParseError ==
    \A r \in Reqs :
        Done(r) =>
            IF FailureClass(r) = "none"
            THEN Events(r, "LogOnError") = {}
            ELSE (frame[r].logSet = "set" /\ FailureClass(r) # "BodyParseError") =>
                   /\ Cardinality(Events(r, "LogOnError")) = 1
                   /\ \A i \in Events(r, "LogOnError") :
                        /\ trace[r][i].msg = ResponseMessage(r)
                        /\ \A j \in Events(r, "http.Error") : i < j

\* C9: a dispatch in progress can always take its next step, and a completed
\* one has exactly one response, 200 or 400: 400 with a non-empty message for
\* each failure, 200 with no failure; no response is ever a server error.
C9_OneResponse ==
    \A r \in Reqs :
        /\ w[r].headerWrites <= 1
        /\ w[r].code < 500
        /\ (frame[r].pc \notin {"idle", "done"}) => ENABLED ServeHTTP(r)
        /\ Done(r) =>
             /\ w[r].headerWrites = 1
             /\ Cardinality(Events(r, "http.Error")) <= 1
             /\ w[r].code \in {StatusOK, StatusBadRequest}
             /\ IF FailureClass(r) = "none"
                THEN w[r].code = StatusOK /\ Events(r, "http.Error") = {}
                ELSE /\ w[r].code = StatusBadRequest
                     /\ Len(w[r].body) >= 2
                     /\ w[r].body[1] # ""

C9_Witness ==
    \E r \in Reqs :
        /\ Done(r) /\ FailureClass(r) = "BodyParseError"
        /\ w[r].code = StatusBadRequest /\ w[r].headerWrites = 1

\* C10: every handler invocation for key k is given one payload: a pointer
\* to the record this dispatch allocated, zero-valued, of the type the
\* catalog has for k, which no other dispatch was given; the catalog is the
\* same in every state; and the headers given map X-Event-Key to k.
C10_PayloadShape ==
    /\ eventTypeMap = EventTypeMapInit
    /\ \A r \in Reqs :
          /\ Cardinality(Events(r, "call")) <= 1
          /\ Cardinality(Events(r, "new")) <= 1
          /\ \A i \in Events(r, "call") :
                LET e == trace[r][i]
                IN  /\ Cataloged(ReqKey(r))
                    /\ e.obj.typ = EventTypeMapInit[ReqKey(r)]
                    /\ e.obj.fields \subseteq StructFields(e.obj.typ)
                    /\ EventKeyHeader \in DOMAIN e.hdrs
                    /\ e.hdrs[EventKeyHeader] = ReqKey(r)
                    /\ \E j \in Events(r, "new") :
                          /\ j < i
                          /\ trace[r][j].obj =
                               [addr |-> e.obj.addr, typ |-> e.obj.typ, fields |-> {}]
                    /\ e.obj.addr \in 1..(nextAddr - 1)
                    /\ \A q \in Reqs \ {r} : \A j \in Events(q, "new") :
                          trace[q][j].obj.addr # e.obj.addr

C10_Witness ==
    \E r \in Reqs :
        \E i \in Events(r, "call") :
            /\ ReqKey(r) = "repo:fork"
            /\ trace[r][i].obj.typ = "RepoForkEvent"
            /\ trace[r][i].obj.fields = {"repository", "fork"}
            /\ trace[r][i].hdrs = [n \in {EventKeyHeader} |-> "repo:fork"]

----------------------------------------------------------------------------
\* No Handle call has stored a handler.
NoneRegistered == \A k \in EventKeys : lastHandle[k] = Nil

\* C11: a Webhook on which no handler has been registered, the zero value
\* (nil handlers map) included, serves requests: its registry is empty, a
\* dispatch in progress can always take its next step, no dispatch has looked
\* up or invoked a handler, and every completed dispatch got one 400 response
\* for a missing key or a missing handler.  The zero value stays so whatever
\* Handle calls are attempted on it.
C11_ZeroValueRejects ==
    (NoneRegistered \/ ~handlersAllocated) =>
        /\ NoneRegistered
        /\ DOMAIN handlers = {}
        /\ \A r \in Reqs :
              /\ frame[r].handler = Nil
              /\ Events(r, "call") = {}
              /\ NoPayload(r)
              /\ (frame[r].pc \notin {"idle", "done"}) => ENABLED ServeHTTP(r)
              /\ Done(r) =>
                    /\ w[r].code = StatusBadRequest
                    /\ w[r].headerWrites = 1
                    /\ FailureClass(r) \in {"MissingEventKey", "UnknownHandler"}
                    /\ ResponseMessage(r) =
                          IF ReqKey(r) = "" THEN <<"Missing X-Event-Key">>
                          ELSE <<"No handler for the event key: ", ReqKey(r)>>

\* A request for a cataloged key is rejected by the zero value, on which a
\* Handle call has been attempted.
C11_Witness ==
    \E r \in Reqs :
        /\ ~handlersAllocated /\ handlePanics
        /\ Done(r) /\ ReqKey(r) = "repo:push"
        /\ w[r].code = StatusBadRequest
        /\ Events(r, "call") = {}

----------------------------------------------------------------------------
\* C13: no step allocates the handlers map, so a Webhook that started as the
\* zero value keeps the nil map; only an allocated map is ever written; a
\* Handle call on an allocated map stores its handler under its key and does
\* not panic; a Handle call on the nil map panics, and leaves the registry
\* empty and the record of stored handlers as it was.
C13_HandleNeedsNewWebhook ==
    [][ /\ handlersAllocated' = handlersAllocated
        /\ (handlers' # handlers) => handlersAllocated
        /\ (handlePanics' # handlePanics) => (~handlersAllocated /\ handlePanics')
        /\ ~handlersAllocated =>
              /\ DOMAIN handlers' = {}
              /\ lastHandle' = lastHandle
              /\ \A k \in EventKeys : lastHandle'[k] = Nil
        /\ \A reg \in Registrations :
              Handle(reg[1], reg[2]) =>
                 IF handlersAllocated
                 THEN /\ MapHas(handlers', reg[1])
                      /\ MapGet(handlers', reg[1]) = reg[2]
                      /\ ~handlePanics'
                 ELSE handlePanics' /\ handlers' = handlers
      ]_vars

\* A Handle call has panicked on the zero value and nothing is registered.
C13_Witness ==
    /\ handlePanics
    /\ ~handlersAllocated
    /\ DOMAIN handlers = {}
    /\ NoneRegistered

----------------------------------------------------------------------------
\* What the handler invoked by call r returned (Nil when none has returned).
HandlerResult(r) ==
    IF Events(r, "returned") = {} THEN Nil
    ELSE trace[r][CHOOSE i \in Events(r, "returned") : TRUE].msg[1]

\* The response of a ServeHTTP call that runs alone: a function of the
\* registry, the catalog, the request's headers and body, and what the
\* handler (if one is invoked) returns.
ResponseAlone(reg, cat, hdr, body, result) ==
    LET k == IF EventKeyHeader \in DOMAIN hdr THEN hdr[EventKeyHeader] ELSE ""
        Rejected(msg) ==
            [code |-> StatusBadRequest, body |-> msg \o <<"\n">>, headerWrites |-> 1]
    IN  IF k = "" THEN Rejected(<<"Missing X-Event-Key">>)
        ELSE IF k \notin DOMAIN reg
             THEN Rejected(<<"No handler for the event key: ", k>>)
        ELSE IF k \notin DOMAIN cat
             THEN Rejected(<<"Unsupported event key type: ", k>>)
        ELSE IF DecodeErr(body, cat[k]) # Nil
             THEN Rejected(<<"Read error: ", DecodeErr(body, cat[k])>>)
        ELSE IF result # Nil
             THEN Rejected(<<"Error handling the event: ", result>>)
        ELSE [code |-> StatusOK, body |-> <<>>, headerWrites |-> 1]

\* C12: while ServeHTTP calls run concurrently and no Handle call is made,
\* the registry is the one serving started with and the catalog is the
\* initial one; every call allocates at most one payload, at an address no
\* other call has allocated; the payload a handler invocation is given is
\* the one its own call allocated, and no two invocations are given the same
\* one; and a completed call has the response it gives when it runs alone
\* against that registry.
C12_ConcurrentDispatches ==
    /\ eventTypeMap = EventTypeMapInit
    /\ DOMAIN handlers = {k \in EventKeys : lastHandle[k] # Nil}
    /\ \A k \in DOMAIN handlers : handlers[k] = lastHandle[k]
    /\ \A r \in Dispatches :
          /\ Cardinality(Events(r, "new")) <= 1
          /\ Cardinality(Events(r, "call")) <= 1
          /\ \A i \in Events(r, "new") :
                /\ trace[r][i].obj.addr \in 1..(nextAddr - 1)
                /\ \A q \in Dispatches \ {r} : \A j \in Events(q, "new") :
                      trace[q][j].obj.addr # trace[r][i].obj.addr
          /\ \A i \in Events(r, "call") :
                /\ \E j \in Events(r, "new") :
                      j < i /\ trace[r][j].obj.addr = trace[r][i].obj.addr
                /\ \A q \in Dispatches \ {r} : \A j \in Events(q, "call") :
                      trace[q][j].obj.addr # trace[r][i].obj.addr
          /\ Done(r) =>
                w[r] = ResponseAlone(handlers, eventTypeMap, frame[r].hdr,
                                     frame[r].body, HandlerResult(r))

\* Two calls for the same key overlap: the first allocated its payload first
\* and is still inside its handler when the second, which allocated later,
\* has completed with 200.
C12_Witness ==
    /\ 2 \in Dispatches
    /\ ReqKey(1) = "repo:push" /\ ReqKey(2) = "repo:push"
    /\ frame[1].pc = "inHandler" /\ frame[1].event.addr = 1
    /\ Done(2) /\ frame[2].event.addr = 2
    /\ w[2].code = StatusOK
    /\ Events(1, "call") # {} /\ Events(2, "call") # {}

====
